---------------------------- MODULE Spec2Model ----------------------------
(***************************************************************************)
(* The data-access layer `api` of the hospital registration front end:     *)
(* the Supabase client flag (services/supabaseClient.ts), the localStorage *)
(* fallback store (getMockData / setMockData), the resilience wrapper      *)
(* trySupabase and the api operations composed from them.                  *)
(*                                                                         *)
(* JavaScript values are tagged records, objects are functions from field  *)
(* names to values, arrays are sequences.  A localStorage item is null or  *)
(* a text; a text either parses as JSON (and then carries the parsed       *)
(* array) or does not.                                                     *)
(***************************************************************************)
EXTENDS Integers, Sequences, FiniteSets, TLC

VARIABLES
    env,            \* import.meta.env: VITE_SUPABASE_URL, VITE_SUPABASE_ANON_KEY
    localStorage,   \* the browser's localStorage, one item per key
    MOCK_DOCTORS,   \* the module-level default doctor array (a mutable object)
    db,             \* the hosted tables behind `supabase`
    serial,         \* the next identity the hosted tables assign
    now,            \* Date.now()
    pending,        \* api calls awaiting their remote response
    calls,          \* how many api calls were made (ghost)
    last,           \* the call that returned last, <<>> before the first (ghost)
    returned,       \* the calls of a concurrent session that returned (ghost)
    remoteStarted   \* how many remote operations were ever started (ghost)

vars == <<env, localStorage, MOCK_DOCTORS, db, serial, now, pending, calls, last,
          returned, remoteStarted>>

---------------------------------------------------------------------------
(* Bounds of the model. *)

MaxCalls == 2       \* api calls per behaviour of Spec
MaxNow == 101       \* the clock stops advancing here
RandDen == 16       \* Math.random() is k / RandDen for some k in 0 .. RandDen - 1

---------------------------------------------------------------------------
(* JavaScript values. *)

Num(n) == [t |-> "number", n |-> n]
Str(s) == [t |-> "string", s |-> s]
\* A string whose characters matter (a NIK): its characters as a sequence.
Chars(c) == [t |-> "chars", c |-> c]
Bool(b) == [t |-> "boolean", b |-> b]
Undefined == [t |-> "undefined"]
\* new Date() at clock value ms, and the string its toISOString()/toJSON() gives.
DateObj(ms) == [t |-> "date", ms |-> ms]
IsoString(ms) == [t |-> "isostring", ms |-> ms]
\* The template string `REG-${n}`.
Template(p, n) == [t |-> "template", prefix |-> p, num |-> n]

\* JavaScript truthiness (if (v), v || w).
Truthy(v) ==
    CASE v.t = "undefined" -> FALSE
      [] v.t = "number" -> v.n # 0
      [] v.t = "string" -> v.s # ""
      [] v.t = "chars" -> Len(v.c) > 0
      [] v.t = "boolean" -> v.b
      [] OTHER -> TRUE

\* The object spread {...a, ...b}.
Spread(a, b) ==
    [f \in (DOMAIN a) \cup (DOMAIN b) |-> IF f \in DOMAIN b THEN b[f] ELSE a[f]]

\* obj.f, undefined when the object has no such property.
Prop(obj, f) == IF f \in DOMAIN obj THEN obj[f] ELSE Undefined

\* findIndex((r) => r.id === id): the first index whose record has the id
\* (0 for -1; indices are from 1).
findIndex(s, id) ==
    LET hit == {i \in 1..Len(s) : Prop(s[i], "id") = Num(id)}
    IN  IF hit = {} THEN 0 ELSE CHOOSE i \in hit : \A j \in hit : i <= j

---------------------------------------------------------------------------
(* JSON.stringify and JSON.parse, as far as arrays of plain objects go:    *)
(* stringify leaves out a property whose value is undefined and writes a   *)
(* Date as its ISO string.                                                 *)

toJSONValue(v) == IF v.t = "date" THEN IsoString(v.ms) ELSE v
toJSONObject(o) ==
    [f \in {g \in DOMAIN o : o[g].t # "undefined"} |-> toJSONValue(o[f])]
toJSONArray(a) == [i \in 1..Len(a) |-> toJSONObject(a[i])]

\* localStorage items.
NullItem == [t |-> "null"]
EmptyText == [t |-> "text", empty |-> TRUE, parses |-> FALSE, value |-> <<>>]
CorruptText == [t |-> "text", empty |-> FALSE, parses |-> FALSE, value |-> <<>>]
JSONstringify(a) ==
    [t |-> "text", empty |-> FALSE, parses |-> TRUE, value |-> toJSONArray(a)]

---------------------------------------------------------------------------
(* services/supabaseClient.ts *)

startsWith(s, prefix) ==
    Len(s) >= Len(prefix) /\ SubSeq(s, 1, Len(prefix)) = prefix

\* A variant that does not look at how the URL starts.
isValidConfig_AnyUrl(e) == e.VITE_SUPABASE_URL # <<>> /\ e.VITE_SUPABASE_ANON_KEY # <<>>
isValidConfig(e) ==
    /\ Len(e.VITE_SUPABASE_URL) > 0
    /\ Len(e.VITE_SUPABASE_ANON_KEY) > 0
    /\ startsWith(e.VITE_SUPABASE_URL, <<"h", "t", "t", "p">>)

isSupabaseEnabled == isValidConfig(env)

---------------------------------------------------------------------------
(* The fallback store. *)

\* Whether getMockData reaches `return defaultData`: the item is null or the
\* empty string (falsy), or JSON.parse throws and the catch swallows it.
ReadsDefault(ls, key) ==
    LET stored == ls[key] IN
    \/ stored.t = "null"
    \/ stored.empty
    \/ ~stored.parses

\* A variant that takes a stored empty array for nothing stored.
getMockData_EmptyAsAbsent(ls, key, defaultData) ==
    IF ReadsDefault(ls, key) \/ ls[key].value = <<>> THEN defaultData ELSE ls[key].value
getMockData(ls, key, defaultData) ==
    IF ReadsDefault(ls, key) THEN defaultData ELSE ls[key].value

\* setItemThrows: localStorage.setItem throws (quota exceeded, storage denied);
\* the catch swallows it and nothing is stored.
setMockData(ls, key, data, setItemThrows) ==
    IF setItemThrows THEN ls ELSE [ls EXCEPT ![key] = JSONstringify(data)]


---------------------------------------------------------------------------
(* The hosted tables as the calls below use them: supabase.from(t) with    *)
(* select / insert / update / delete, eq and order.  A request answers in  *)
(* one of four ways (net):                                                 *)
(*   "ok"     the statement ran; { data, error: null }                     *)
(*   "nodata" the statement ran; { data: null, error: null }               *)
(*   "error"  the statement did not run; { data: null, error }             *)
(*   "throw"  the awaited request rejects; the statement did not run       *)

Ran(net) == net \in {"ok", "nodata"}

\* What a supabase call resolves to: rows is the data of an "ok" answer.
Response(net, rows) ==
    [thrown |-> net = "throw", error |-> net = "error",
     dataIsNull |-> net # "ok", data |-> IF net = "ok" THEN rows ELSE <<>>]

\* What one `operation` closure gives back to trySupabase.
OpResult(resp, dataIsNull, data, dbv, ser) ==
    [thrown |-> resp.thrown, error |-> resp.error,
     dataIsNull |-> (~resp.thrown) /\ dataIsNull, data |-> data,
     db |-> dbv, serial |-> ser]

\* .eq(column, value)
eq(rows, column, value) == SelectSeq(rows, LAMBDA r : Prop(r, column) = value)
\* .order('created_at', { ascending: false }): the table stamps rows as they
\* are inserted, so the newest row comes first.
orderDesc(rows) == [i \in 1..Len(rows) |-> rows[Len(rows) + 1 - i]]

\* insert([row]): the row travels as JSON; the table assigns the identity
\* unless the row brings one.
insertedRow(row, ser) == Spread([id |-> Num(ser)], toJSONObject(row))
\* A variant where the row is stored although the request failed.
dbInsert_DespiteFailure(dbv, table, row, ser, net) ==
    [dbv EXCEPT ![table] = Append(@, insertedRow(row, ser))]
dbInsert(dbv, table, row, ser, net) ==
    IF Ran(net) THEN [dbv EXCEPT ![table] = Append(@, insertedRow(row, ser))] ELSE dbv
serialAfterInsert(row, ser, net) ==
    IF Ran(net) /\ "id" \notin DOMAIN toJSONObject(row) THEN ser + 1 ELSE ser
\* update(values).eq('id', id)
dbUpdate(dbv, table, id, values, net) ==
    IF Ran(net)
    THEN [dbv EXCEPT ![table] =
            [i \in 1..Len(@) |->
                IF Prop(@[i], "id") = Num(id)
                THEN Spread(@[i], toJSONObject(values)) ELSE @[i]]]
    ELSE dbv
\* delete().eq('id', id)
dbDelete(dbv, table, id, net) ==
    IF Ran(net)
    THEN [dbv EXCEPT ![table] = SelectSeq(@, LAMBDA r : Prop(r, "id") # Num(id))]
    ELSE dbv

---------------------------------------------------------------------------
(* What a fallback closure leaves behind: the storage, the default doctor  *)
(* array, and what it returns or throws.                                   *)

FbReturn(ls, mock, ret) == [ls |-> ls, mock |-> mock, threw |-> FALSE, ret |-> ret]
FbThrow(ls, mock, err) == [ls |-> ls, mock |-> mock, threw |-> TRUE, ret |-> err]

Success == [message |-> Str("success")]

---------------------------------------------------------------------------
(* api.checkNik, api.loginPatient and the list operations. *)

checkNik_operation(dbv, ser, nik, net) ==
    LET resp == Response(net, eq(dbv["registrations"], "nik", nik)) IN
    \* data && data.length > 0: null stays null, an array gives a boolean
    OpResult(resp, resp.dataIsNull, Bool(Len(resp.data) > 0), dbv, ser)

checkNik_fallback(ls, mock, nik) ==
    LET regs == getMockData(ls, "registrations", <<>>) IN
    FbReturn(ls, mock, Bool(\E i \in 1..Len(regs) : Prop(regs[i], "nik") = nik))

loginPatient_operation(dbv, ser, nik, net) ==
    LET resp == Response(net, eq(dbv["registrations"], "nik", nik)) IN
    IF resp.error
    THEN OpResult(resp, TRUE, <<>>, dbv, ser)
    ELSE OpResult(resp, FALSE,
                  [found |-> TRUE, data |-> IF resp.dataIsNull THEN <<>> ELSE resp.data],
                  dbv, ser)

MinDemoNikLength == 10

\* A variant that lets in only NIKs longer than the threshold.
loginPatient_fallback_Longer(ls, mock, nik) ==
    LET regs == getMockData(ls, "registrations", <<>>)
        patientRegs == SelectSeq(regs, LAMBDA r : Prop(r, "nik") = nik)
    IN  IF Len(patientRegs) > 0 THEN FbReturn(ls, mock, [found |-> TRUE, data |-> patientRegs])
        ELSE IF Len(nik.c) > MinDemoNikLength
             THEN FbReturn(ls, mock, [found |-> TRUE, data |-> <<>>])
             ELSE FbThrow(ls, mock, Str("NIK tidak ditemukan"))
loginPatient_fallback(ls, mock, nik) ==
    LET regs == getMockData(ls, "registrations", <<>>)
        patientRegs == SelectSeq(regs, LAMBDA r : Prop(r, "nik") = nik)
    IN  IF Len(patientRegs) > 0 THEN FbReturn(ls, mock, [found |-> TRUE, data |-> patientRegs])
        ELSE IF Len(nik.c) >= MinDemoNikLength
             THEN FbReturn(ls, mock, [found |-> TRUE, data |-> <<>>])
             ELSE FbThrow(ls, mock, Str("NIK tidak ditemukan"))

\* getDoctors, getUsers, getBPJS, getFacilities, getRooms: select('*')
\* getRegistrations, getMessages: select('*').order('created_at', descending)
\* getBanks: select('*'), data || []
Ordered == {"registrations", "messages"}
list_operation(dbv, ser, key, net) ==
    LET resp == Response(net, IF key \in Ordered THEN orderDesc(dbv[key]) ELSE dbv[key]) IN
    OpResult(resp, resp.dataIsNull /\ key # "bank_accounts", resp.data, dbv, ser)

\* The default a list or a write reads when the key holds nothing usable.
defaultData(key, mock) == IF key = "doctors" THEN mock ELSE <<>>

list_fallback(ls, mock, key) ==
    FbReturn(ls, mock, getMockData(ls, key, defaultData(key, mock)))

---------------------------------------------------------------------------
(* api.registerPatient and api.sendMessage. *)

\* Math.floor(1000 + Math.random() * 9000), Math.random() being k / RandDen.
randomNum(k) == 1000 + ((k * 9000) \div RandDen)

\* A variant where the caller's data is spread last.
newRegistration_CallerLast(data, k, t) ==
    LET bookingCode == Template("REG-", randomNum(k))
        bpjs == Prop(data, "payment") = Str("bpjs")
    IN  Spread([bookingCode |-> bookingCode,
                booking_code |-> bookingCode,
                payment_status |-> IF bpjs THEN Str("Paid") ELSE Str("Unpaid"),
                payment_detail |->
                    IF bpjs THEN Str("BPJS Kesehatan")
                    ELSE IF Truthy(Prop(data, "payment_detail"))
                         THEN data["payment_detail"] ELSE Str("Tunai"),
                cost |-> Num(0),
                status |-> Str("Pending"),
                created_at |-> IsoString(t)],
               data)
\* newData, built before trySupabase is called: t is Date.now() at the call.
newRegistration(data, k, t) ==
    LET bookingCode == Template("REG-", randomNum(k))
        bpjs == Prop(data, "payment") = Str("bpjs")
    IN  Spread(data,
               [bookingCode |-> bookingCode,
                booking_code |-> bookingCode,
                payment_status |-> IF bpjs THEN Str("Paid") ELSE Str("Unpaid"),
                payment_detail |->
                    IF bpjs THEN Str("BPJS Kesehatan")
                    ELSE IF Truthy(Prop(data, "payment_detail"))
                         THEN data["payment_detail"] ELSE Str("Tunai"),
                cost |-> Num(0),
                status |-> Str("Pending"),
                created_at |-> IsoString(t)])

\* insert([newData]).select(): resData is the inserted row, or null
registerPatient_operation(dbv, ser, newData, net) ==
    LET resp == Response(net, <<insertedRow(newData, ser)>>)
        merged == IF resp.dataIsNull THEN newData ELSE Spread(newData, resp.data[1])
    IN  OpResult(resp, FALSE, [message |-> Str("success"), data |-> merged],
                 dbInsert(dbv, "registrations", newData, ser, net),
                 serialAfterInsert(newData, ser, net))

registerPatient_fallback(ls, mock, newData, t, setItemThrows) ==
    LET regs == getMockData(ls, "registrations", <<>>)
        savedData == Spread([id |-> Num(t)], newData)
    IN  FbReturn(setMockData(ls, "registrations", Append(regs, savedData), setItemThrows),
                 mock, [message |-> Str("success"), data |-> savedData])

sendMessage_operation(dbv, ser, data, net) ==
    LET row == Spread(data, [is_read |-> Bool(FALSE)]) IN
    OpResult(Response(net, <<>>), FALSE, Success,
             dbInsert(dbv, "messages", row, ser, net), serialAfterInsert(row, ser, net))

sendMessage_fallback(ls, mock, data, t, setItemThrows) ==
    LET msgs == getMockData(ls, "messages", <<>>)
        msg == Spread(Spread([id |-> Num(t)], data),
                      [is_read |-> Bool(FALSE), created_at |-> DateObj(t)])
    IN  FbReturn(setMockData(ls, "messages", Append(msgs, msg), setItemThrows),
                 mock, Success)

---------------------------------------------------------------------------
(* The update operations. *)

\* api.updateRegistration builds `updates` from its arguments; args holds
\* the arguments the caller supplied (a missing one is undefined).
registrationUpdates(args) ==
    LET given(f) == f \in DOMAIN args /\ args[f].t # "undefined"
        kept == {"status"}
                \cup {f \in {"payment_status", "payment_detail", "payment_proof"} :
                        Truthy(Prop(args, f))}
                \cup {f \in {"cost", "class_type", "facility_notes"} : given(f)}
    IN  [f \in kept |-> Prop(args, f)]

\* update(values).eq('id', id) of every update operation; data: true
update_operation(dbv, ser, key, id, values, net) ==
    OpResult(Response(net, <<>>), FALSE, Bool(TRUE),
             dbUpdate(dbv, key, id, values, net), ser)

\* A variant that puts the payload in the place of the record.
updateGuarded_fallback_Replaces(ls, mock, key, id, values, setItemThrows) ==
    LET recs == getMockData(ls, key, defaultData(key, mock))
        idx == findIndex(recs, id)
        changed == [recs EXCEPT ![idx] = Spread([id |-> Num(id)], values)]
    IN  IF idx # 0
        THEN FbReturn(setMockData(ls, key, changed, setItemThrows),
                      IF key = "doctors" /\ ReadsDefault(ls, key) THEN changed ELSE mock,
                      Bool(TRUE))
        ELSE FbReturn(ls, mock, Bool(TRUE))
\* updateRegistration, updateMessage, updateDoctor: the array is written back
\* only when a record with the id was found.  docs[idx] = ... assigns into the
\* array getMockData returned, which is MOCK_DOCTORS itself when the default
\* was returned.
updateGuarded_fallback(ls, mock, key, id, values, setItemThrows) ==
    LET recs == getMockData(ls, key, defaultData(key, mock))
        idx == findIndex(recs, id)
        changed == [recs EXCEPT ![idx] = Spread(@, values)]
    IN  IF idx # 0
        THEN FbReturn(setMockData(ls, key, changed, setItemThrows),
                      IF key = "doctors" /\ ReadsDefault(ls, key) THEN changed ELSE mock,
                      Bool(TRUE))
        ELSE FbReturn(ls, mock, Bool(TRUE))

\* updateUser, updateBPJS, updateFacility, updateRoom, updateBank: the array is
\* written back whether or not a record was found.
updateAlways_fallback(ls, mock, key, id, values, setItemThrows) ==
    LET d == getMockData(ls, key, <<>>)
        i == findIndex(d, id)
        changed == IF i # 0 THEN [d EXCEPT ![i] = Spread(@, values)] ELSE d
    IN  FbReturn(setMockData(ls, key, changed, setItemThrows), mock, Bool(TRUE))

---------------------------------------------------------------------------
(* The add and delete operations. *)

add_operation(dbv, ser, key, data, net) ==
    OpResult(Response(net, <<>>), FALSE, Bool(TRUE),
             dbInsert(dbv, key, data, ser, net), serialAfterInsert(data, ser, net))

\* addDoctor, addUser, addBPJS, addFacility, addRoom, addBank.  push appends to
\* the array getMockData returned: a fresh [] for the other keys, MOCK_DOCTORS
\* itself for 'doctors' when the default was returned.
add_fallback(ls, mock, key, data, t, setItemThrows) ==
    LET d == getMockData(ls, key, defaultData(key, mock))
        pushed == Append(d, Spread([id |-> Num(t)], data))
    IN  FbReturn(setMockData(ls, key, pushed, setItemThrows),
                 IF key = "doctors" /\ ReadsDefault(ls, key) THEN pushed ELSE mock,
                 Bool(TRUE))

delete_operation(dbv, ser, key, id, net) ==
    OpResult(Response(net, <<>>), FALSE, Bool(TRUE), dbDelete(dbv, key, id, net), ser)

\* A variant that writes only when the filter removed a record.
delete_fallback_WhenRemoved(ls, mock, key, id, setItemThrows) ==
    LET d == getMockData(ls, key, defaultData(key, mock))
        kept == SelectSeq(d, LAMBDA x : Prop(x, "id") # Num(id))
    IN  FbReturn(IF kept = d THEN ls ELSE setMockData(ls, key, kept, setItemThrows),
                 mock, Bool(TRUE))
\* deleteDoctor, deleteUser, deleteBPJS, deleteFacility, deleteRoom, deleteBank:
\* filter builds a new array, which is always written back.
delete_fallback(ls, mock, key, id, setItemThrows) ==
    LET d == getMockData(ls, key, defaultData(key, mock)) IN
    FbReturn(setMockData(ls, key, SelectSeq(d, LAMBDA x : Prop(x, "id") # Num(id)),
                         setItemThrows),
             mock, Bool(TRUE))

---------------------------------------------------------------------------
(* trySupabase.  `operation` and `fallback` are what the two closures do   *)
(* when run on the current stores; the wrapper decides which one is run    *)
(* and whose result the call gives.  A fallback that throws rejects the    *)
(* promise trySupabase returned.                                           *)

\* A variant that returns the operation's data even when it is null.
trySupabase_NullDataReturned(enabled, operation, fallback, ls, mock, dbv, ser) ==
    LET remote == enabled /\ ~operation.thrown /\ ~operation.error
    IN  [path |-> IF remote THEN "remote" ELSE "fallback",
         attempts |-> IF enabled THEN 1 ELSE 0,
         fallbacks |-> IF remote THEN 0 ELSE 1,
         rejected |-> (~remote) /\ fallback.threw,
         ret |-> IF remote THEN operation.data ELSE fallback.ret,
         db |-> IF enabled THEN operation.db ELSE dbv,
         serial |-> IF enabled THEN operation.serial ELSE ser,
         ls |-> IF remote THEN ls ELSE fallback.ls,
         mock |-> IF remote THEN mock ELSE fallback.mock]
trySupabase(enabled, operation, fallback, ls, mock, dbv, ser) ==
    LET remote == /\ enabled
                  /\ ~operation.thrown
                  /\ ~operation.error /\ ~operation.dataIsNull
    IN  [path |-> IF remote THEN "remote" ELSE "fallback",
         attempts |-> IF enabled THEN 1 ELSE 0,
         fallbacks |-> IF remote THEN 0 ELSE 1,
         rejected |-> (~remote) /\ fallback.threw,
         ret |-> IF remote THEN operation.data ELSE fallback.ret,
         db |-> IF enabled THEN operation.db ELSE dbv,
         serial |-> IF enabled THEN operation.serial ELSE ser,
         ls |-> IF remote THEN ls ELSE fallback.ls,
         mock |-> IF remote THEN mock ELSE fallback.mock]

---------------------------------------------------------------------------
(* An api call: fn is the api function, kind the shape of its two          *)
(* closures, key the table and storage key, id and arg what the closures   *)
(* capture, given what the caller passed.                                  *)

Call(fn, kind, key, id, arg, given) ==
    [fn |-> fn, kind |-> kind, key |-> key, id |-> id, arg |-> arg, given |-> given]

WriteKinds == {"register", "send", "updateGuarded", "updateAlways", "add", "delete"}
InsertKinds == {"register", "send", "add"}

Operation(call, dbv, ser, net) ==
    CASE call.kind = "checkNik" -> checkNik_operation(dbv, ser, call.arg, net)
      [] call.kind = "login" -> loginPatient_operation(dbv, ser, call.arg, net)
      [] call.kind = "list" -> list_operation(dbv, ser, call.key, net)
      [] call.kind = "register" -> registerPatient_operation(dbv, ser, call.arg, net)
      [] call.kind = "send" -> sendMessage_operation(dbv, ser, call.arg, net)
      [] call.kind \in {"updateGuarded", "updateAlways"} ->
            update_operation(dbv, ser, call.key, call.id, call.arg, net)
      [] call.kind = "add" -> add_operation(dbv, ser, call.key, call.arg, net)
      [] call.kind = "delete" -> delete_operation(dbv, ser, call.key, call.id, net)

Fallback(call, ls, mock, t, setItemThrows) ==
    CASE call.kind = "checkNik" -> checkNik_fallback(ls, mock, call.arg)
      [] call.kind = "login" -> loginPatient_fallback(ls, mock, call.arg)
      [] call.kind = "list" -> list_fallback(ls, mock, call.key)
      [] call.kind = "register" -> registerPatient_fallback(ls, mock, call.arg, t, setItemThrows)
      [] call.kind = "send" -> sendMessage_fallback(ls, mock, call.arg, t, setItemThrows)
      [] call.kind = "updateGuarded" ->
            updateGuarded_fallback(ls, mock, call.key, call.id, call.arg, setItemThrows)
      [] call.kind = "updateAlways" ->
            updateAlways_fallback(ls, mock, call.key, call.id, call.arg, setItemThrows)
      [] call.kind = "add" -> add_fallback(ls, mock, call.key, call.arg, t, setItemThrows)
      [] call.kind = "delete" -> delete_fallback(ls, mock, call.key, call.id, setItemThrows)

\* A variant where the closure works on what was stored when the call was made.
FallbackReads_AtCall(atCall, atRun) == atCall
\* The stores a fallback closure reads when it runs after the call was issued
\* with the stores atCall: it runs getMockData itself, on the stores as they
\* are when it runs.
FallbackReads(atCall, atRun) == atRun

\* What is recorded of a call that returned.
Record(call, net, setItemThrows, r, t) ==
    [call |-> call, net |-> net,
     setItemThrows |-> setItemThrows /\ r.fallbacks = 1 /\ call.kind \in WriteKinds,
     path |-> r.path, attempts |-> r.attempts, fallbacks |-> r.fallbacks,
     rejected |-> r.rejected, ret |-> r.ret, at |-> t]

\* The call returns at clock value t: the wrapper's outcome becomes the state,
\* and the call is recorded together with the stores it found.  issued holds
\* the stores as they were when the call was made.
Returns(call, issued, net, setItemThrows, t) ==
    LET seen == FallbackReads(issued, [ls |-> localStorage, mock |-> MOCK_DOCTORS])
        r == trySupabase(isSupabaseEnabled,
                         Operation(call, db, serial, net),
                         Fallback(call, seen.ls, seen.mock, t, setItemThrows),
                         localStorage, MOCK_DOCTORS, db, serial)
    IN  /\ localStorage' = r.ls
        /\ MOCK_DOCTORS' = r.mock
        /\ db' = r.db
        /\ serial' = r.serial
        /\ now' = t
        /\ remoteStarted' = remoteStarted + r.attempts
        /\ last' = << Record(call, net, setItemThrows, r, t)
                        @@ [before |-> [ls |-> localStorage, mock |-> MOCK_DOCTORS,
                                        db |-> db, serial |-> serial]] >>
        /\ UNCHANGED env

---------------------------------------------------------------------------
(* The inputs the actions draw from. *)

Keys == {"registrations", "doctors", "messages", "users",
         "bpjs_data", "facilities", "rooms", "bank_accounts"}
\* users, bpjs_data, facilities, rooms, bank_accounts share one code shape.
EntityKeys == {"users", "bpjs_data", "facilities", "rooms", "bank_accounts"}
CrudKeys == EntityKeys \cup {"doctors"}

ListFn == [registrations |-> "getRegistrations", doctors |-> "getDoctors",
           messages |-> "getMessages", users |-> "getUsers", bpjs_data |-> "getBPJS",
           facilities |-> "getFacilities", rooms |-> "getRooms", bank_accounts |-> "getBanks"]
AddFn == [doctors |-> "addDoctor", users |-> "addUser", bpjs_data |-> "addBPJS",
          facilities |-> "addFacility", rooms |-> "addRoom", bank_accounts |-> "addBank"]
UpdateFn == [users |-> "updateUser", bpjs_data |-> "updateBPJS",
             facilities |-> "updateFacility", rooms |-> "updateRoom",
             bank_accounts |-> "updateBank"]
DeleteFn == [doctors |-> "deleteDoctor", users |-> "deleteUser", bpjs_data |-> "deleteBPJS",
             facilities |-> "deleteFacility", rooms |-> "deleteRoom",
             bank_accounts |-> "deleteBank"]

\* A NIK one character short of the demo threshold, and one that reaches it.
ShortNik == Chars([i \in 1..(MinDemoNikLength - 1) |-> i])
LongNik == Chars([i \in 1..MinDemoNikLength |-> i])
Niks == {ShortNik, LongNik}

\* Identities asked for: one that seeded collections hold, one nothing holds.
KnownId == 1
OtherId == 2
MissingId == 9
Ids == {KnownId, MissingId}

RegisterData ==
    { [nik |-> ShortNik, payment |-> Str("bpjs"), payment_detail |-> Str("Transfer BCA")],
      [nik |-> LongNik, payment |-> Str("umum"), payment_detail |-> Str("Transfer BCA")],
      [nik |-> LongNik, payment |-> Str("umum"), payment_detail |-> Str("")],
      [nik |-> ShortNik, payment |-> Str("umum"), status |-> Str("Selesai"),
       cost |-> Num(5), payment_status |-> Str("Paid"),
       bookingCode |-> Str("MINE"), booking_code |-> Str("MINE")] }
RandomDraws == {0, RandDen - 1}

MessageData == { [name |-> Str("Budi"), message |-> Str("halo")] }

\* updateRegistration's arguments after id, as the caller supplied them.
RegistrationArgs ==
    { [status |-> Str("Selesai")],
      [status |-> Str("Selesai"), payment_status |-> Str("Paid"), cost |-> Num(0),
       payment_detail |-> Str(""), class_type |-> Str("")],
      [status |-> Str("Batal"), cost |-> Undefined, payment_proof |-> Str("bukti.png"),
       facility_notes |-> Str("AC")] }

UpdateData == { [name |-> Str("renamed")], [name |-> Undefined, note |-> Str("n")] }
AddData == { [name |-> Str("new")], [name |-> Str("tmp"), note |-> Undefined] }

\* The answers a request of this kind can get; none is consulted when the
\* remote path is disabled.
Nets(kind) ==
    IF ~isSupabaseEnabled THEN {"unused"}
    ELSE IF kind \in {"checkNik", "login", "list", "register"}
         THEN {"ok", "nodata", "error", "throw"}
         ELSE {"ok", "error", "throw"}
\* Whether localStorage.setItem throws when the fallback writes; not consulted
\* by a call that writes nothing to localStorage.
Quotas(kind, net) ==
    IF kind \in WriteKinds /\ net \notin {"ok", "nodata"} THEN BOOLEAN ELSE {FALSE}

---------------------------------------------------------------------------
(* The initial state: the configuration the bundle was built with, what an *)
(* earlier session left in localStorage, and the hosted tables.            *)

Envs ==
    { [VITE_SUPABASE_URL |-> <<"h", "t", "t", "p", "s", ":">>, VITE_SUPABASE_ANON_KEY |-> <<"k">>],
      [VITE_SUPABASE_URL |-> <<>>, VITE_SUPABASE_ANON_KEY |-> <<"k">>],
      [VITE_SUPABASE_URL |-> <<"h", "t", "t", "p", "s", ":">>, VITE_SUPABASE_ANON_KEY |-> <<>>],
      [VITE_SUPABASE_URL |-> <<"f", "t", "p", ":">>, VITE_SUPABASE_ANON_KEY |-> <<"k">>] }

InitialDoctors ==
    << [id |-> Num(1), name |-> Str("dr. Andi Wijaya, Sp.PD"), specialty |-> Str("Penyakit Dalam"),
        available |-> Bool(TRUE)],
       [id |-> Num(2), name |-> Str("dr. Sarah Utami, Sp.A"), specialty |-> Str("Anak"),
        available |-> Bool(TRUE)] >>

SeedRegistration(id, nik) ==
    [id |-> Num(id), nik |-> nik, status |-> Str("Pending"), payment_status |-> Str("Unpaid"),
     payment_detail |-> Str("Tunai"), cost |-> Num(0), class_type |-> Str("VIP")]
\* Records an earlier session stored: two of them share an identity (two adds
\* in the same millisecond).
Seed(key) ==
    CASE key = "registrations" ->
            << SeedRegistration(KnownId, ShortNik), SeedRegistration(OtherId, LongNik),
               SeedRegistration(KnownId, LongNik) >>
      [] key = "doctors" -> << [id |-> Num(OtherId), name |-> Str("dr. Sarah"), note |-> Str("k")],
                               [id |-> Num(KnownId), name |-> Str("dr. Andi"), note |-> Str("k")] >>
      [] OTHER -> << [id |-> Num(KnownId), name |-> Str("a"), note |-> Str("k")],
                     [id |-> Num(OtherId), name |-> Str("b"), note |-> Str("k")],
                     [id |-> Num(KnownId), name |-> Str("c"), note |-> Str("k")] >>

Storages ==
    { [k \in Keys |-> NullItem],
      [k \in Keys |-> JSONstringify(Seed(k))],
      [k \in Keys |-> IF k \in {"registrations", "doctors", "users", "rooms"}
                      THEN CorruptText ELSE EmptyText] }

HostedTables ==
    [k \in Keys |->
        IF k = "registrations" THEN << SeedRegistration(KnownId, LongNik) >>
        ELSE << [id |-> Num(KnownId), name |-> Str("a"), note |-> Str("k")],
                [id |-> Num(OtherId), name |-> Str("b"), note |-> Str("k")] >>]

Init ==
    /\ env \in Envs
    /\ localStorage \in Storages
    /\ MOCK_DOCTORS = InitialDoctors
    /\ db = HostedTables
    /\ serial = 3
    /\ now = 100
    /\ pending = <<>>
    /\ calls = 0
    /\ last = <<>>
    /\ returned = <<>>
    /\ remoteStarted = 0

---------------------------------------------------------------------------
(* The api operations, one call at a time: a call is awaited before the    *)
(* next is made.                                                           *)

\* The clock values a call can find: Date.now() does not go back, and two
\* calls can fall into the same millisecond.
Clock == {t \in {now, now + 1} : t <= MaxNow}

Invoke(call, t) ==
    /\ calls < MaxCalls
    /\ pending = <<>>
    /\ last = <<>>
    /\ calls' = calls + 1
    /\ \E net \in Nets(call.kind) : \E setItemThrows \in Quotas(call.kind, net) :
            Returns(call, [ls |-> localStorage, mock |-> MOCK_DOCTORS], net, setItemThrows, t)
    /\ UNCHANGED <<pending, returned>>

checkNik == \E nik \in Niks : Invoke(Call("checkNik", "checkNik", "registrations", 0, nik, nik), now)

loginPatient == \E nik \in Niks : Invoke(Call("loginPatient", "login", "registrations", 0, nik, nik), now)

\* getDoctors, getRegistrations, getMessages, getUsers, getBPJS, getFacilities,
\* getRooms, getBanks
getList == \E key \in Keys : Invoke(Call(ListFn[key], "list", key, 0, <<>>, <<>>), now)

registerPatient ==
    \E data \in RegisterData, k \in RandomDraws, t \in Clock :
        Invoke(Call("registerPatient", "register", "registrations", 0,
                    newRegistration(data, k, t), [data |-> data, k |-> k]), t)

sendMessage ==
    \E data \in MessageData, t \in Clock :
        Invoke(Call("sendMessage", "send", "messages", 0, data, data), t)

updateRegistration ==
    \E id \in Ids, args \in RegistrationArgs :
        Invoke(Call("updateRegistration", "updateGuarded", "registrations", id,
                    registrationUpdates(args), args), now)

updateMessage ==
    \E id \in Ids, data \in UpdateData :
        Invoke(Call("updateMessage", "updateGuarded", "messages", id, data, data), now)

updateDoctor ==
    \E id \in Ids, data \in UpdateData :
        Invoke(Call("updateDoctor", "updateGuarded", "doctors", id, data, data), now)

\* updateUser, updateBPJS, updateFacility, updateRoom, updateBank
updateEntity ==
    \E key \in EntityKeys, id \in Ids, data \in UpdateData :
        Invoke(Call(UpdateFn[key], "updateAlways", key, id, data, data), now)

\* addDoctor, addUser, addBPJS, addFacility, addRoom, addBank
addEntity ==
    \E key \in CrudKeys, data \in AddData, t \in Clock :
        Invoke(Call(AddFn[key], "add", key, 0, data, data), t)

\* deleteDoctor, deleteUser, deleteBPJS, deleteFacility, deleteRoom, deleteBank
deleteEntity ==
    \E key \in CrudKeys, id \in Ids : Invoke(Call(DeleteFn[key], "delete", key, id, <<>>, <<>>), now)

\* The caller's await takes the result of the call that returned.
Awaited ==
    /\ last # <<>>
    /\ last' = <<>>
    /\ UNCHANGED <<env, localStorage, MOCK_DOCTORS, db, serial, now, pending, calls,
                   returned, remoteStarted>>

Next ==
    \/ checkNik \/ loginPatient \/ getList
    \/ registerPatient \/ sendMessage
    \/ updateRegistration \/ updateMessage \/ updateDoctor \/ updateEntity
    \/ addEntity \/ deleteEntity
    \/ Awaited

Spec == Init /\ [][Next]_vars

---------------------------------------------------------------------------
(* The fallback store on its own: getMockData and setMockData applied to   *)
(* keys, arrays and defaults drawn from small sets.                        *)

MaxStoreOps == 2    \* reads and writes per behaviour of StoreSpec

StoreArrays ==
    { <<>>,
      << [id |-> Num(7), name |-> Str("x")] >>,
      << [id |-> Num(7), name |-> Str("x")], [id |-> Num(7), name |-> Str("y")] >>,
      << [id |-> Num(7), name |-> Undefined] >>,
      << [id |-> Num(7), created_at |-> DateObj(100)] >> }
StoreDefaults == { <<>>, InitialDoctors }

\* An array JSON.stringify and JSON.parse give back as it was.
JSONSerializable(a) == toJSONArray(a) = a

StoreWrite ==
    /\ calls < MaxStoreOps
    /\ \E key \in Keys, data \in StoreArrays, setItemThrows \in BOOLEAN :
        /\ localStorage' = setMockData(localStorage, key, data, setItemThrows)
        /\ last' = << [fn |-> "setMockData", key |-> key, data |-> data,
                       setItemThrows |-> setItemThrows] >>
    /\ calls' = calls + 1
    /\ UNCHANGED <<env, MOCK_DOCTORS, db, serial, now, pending, returned, remoteStarted>>

StoreRead ==
    /\ calls < MaxStoreOps
    /\ \E key \in Keys, dflt \in StoreDefaults :
        last' = << [fn |-> "getMockData", key |-> key, defaultData |-> dflt,
                    item |-> localStorage[key],
                    result |-> getMockData(localStorage, key, dflt)] >>
    /\ calls' = calls + 1
    /\ UNCHANGED <<env, localStorage, MOCK_DOCTORS, db, serial, now, pending, returned,
                   remoteStarted>>

StoreNext == StoreWrite \/ StoreRead

StoreSpec == Init /\ [][StoreNext]_vars

---------------------------------------------------------------------------
(* Calls in flight together.  A call made while the remote path is enabled *)
(* is suspended at `await operation()` and resumes when the request is     *)
(* answered; everything from there to the return of the fallback closure   *)
(* runs without another await, as one step.  A call made while the remote  *)
(* path is disabled runs its fallback before the call expression returns.  *)

MaxRaceCalls == 2   \* calls made per behaviour of RaceSpec

RaceKeys == {"users", "doctors"}
RaceUpdateData == { [name |-> Str("renamed")], [note |-> Str("noted")] }
RaceCalls ==
    { Call(AddFn[key], "add", key, 0, data, data) : key \in RaceKeys, data \in AddData }
    \cup { Call(UpdateFn["users"], "updateAlways", "users", KnownId, data, data) :
                data \in RaceUpdateData }
    \cup { Call("updateDoctor", "updateGuarded", "doctors", KnownId, data, data) :
                data \in RaceUpdateData }

\* What is kept of a call that returned in a concurrent session; inFlight is
\* how many other calls were suspended while its continuation ran.
Returned(rec, inFlight) ==
    [call |-> rec.call, path |-> rec.path, setItemThrows |-> rec.setItemThrows,
     rejected |-> rec.rejected, at |-> rec.at, inFlight |-> inFlight,
     found |-> rec.before]

RaceSettles(i, net, setItemThrows, t) ==
    /\ Returns(pending[i].call, pending[i].issued, net, setItemThrows, t)
    /\ pending' = [j \in 1..(Len(pending) - 1) |->
                        IF j < i THEN pending[j] ELSE pending[j + 1]]
    /\ returned' = Append(returned, Returned(last'[1], Len(pending) - 1))
    /\ UNCHANGED calls

\* The request of a suspended call is answered and the call returns.
RaceSettle ==
    \E i \in 1..Len(pending), t \in Clock :
        \E net \in Nets(pending[i].call.kind) :
            \E setItemThrows \in Quotas(pending[i].call.kind, net) :
                RaceSettles(i, net, setItemThrows, t)

\* A call is made while others may be suspended.
RaceIssue ==
    /\ calls < MaxRaceCalls
    /\ calls' = calls + 1
    /\ \E call \in RaceCalls :
        IF isSupabaseEnabled
        THEN /\ pending' = Append(pending,
                    [call |-> call, issued |-> [ls |-> localStorage, mock |-> MOCK_DOCTORS]])
             /\ UNCHANGED <<env, localStorage, MOCK_DOCTORS, db, serial, now, last,
                            returned, remoteStarted>>
        ELSE /\ \E t \in Clock, setItemThrows \in BOOLEAN :
                    Returns(call, [ls |-> localStorage, mock |-> MOCK_DOCTORS],
                            "unused", setItemThrows, t)
             /\ returned' = Append(returned, Returned(last'[1], Len(pending)))
             /\ UNCHANGED pending

RaceNext == RaceIssue \/ RaceSettle

RaceSpec == Init /\ [][RaceNext]_vars

---------------------------------------------------------------------------
(* What the properties below read. *)

\* An api call has returned and its result is with the caller.
HasReturned == last # <<>> /\ "call" \in DOMAIN last[1]
L == last[1]

\* The configuration lacks what the remote path needs, spelled out.
ConfigInvalid ==
    LET url == env.VITE_SUPABASE_URL IN
    \/ url = <<>>
    \/ env.VITE_SUPABASE_ANON_KEY = <<>>
    \/ Len(url) < 4
    \/ <<url[1], url[2], url[3], url[4]>> # <<"h", "t", "t", "p">>

\* The collection a fallback read of key gives, as it is serialized.
Collection(ls, mock, key) == toJSONArray(getMockData(ls, key, defaultData(key, mock)))
CollectionNow(key) == Collection(localStorage, MOCK_DOCTORS, key)
CollectionBefore(key) == Collection(L.before.ls, L.before.mock, key)

\* What the two closures of the returned call do on the stores it found.
LastOperation == Operation(L.call, L.before.db, L.before.serial, L.net)
LastFallback == Fallback(L.call, L.before.ls, L.before.mock, L.at, L.setItemThrows)

---------------------------------------------------------------------------
(* C1.  trySupabase returns the remote operation's data exactly when the   *)
(* remote path is enabled, the operation does not throw, its error is      *)
(* falsy and its data is not null; in every other case it runs the         *)
(* fallback and returns, or rejects with, the fallback's result.  The      *)
(* remote operation is attempted at most once and the fallback is run at   *)
(* most once per call.                                                     *)
C1_WrapperContract ==
    HasReturned =>
        LET takesRemote == /\ ~ConfigInvalid
                           /\ ~LastOperation.thrown
                           /\ ~LastOperation.error
                           /\ ~LastOperation.dataIsNull
        IN  /\ (L.path = "remote") <=> takesRemote
            /\ takesRemote =>
                    /\ L.ret = LastOperation.data
                    /\ ~L.rejected
                    /\ L.fallbacks = 0
                    /\ localStorage = L.before.ls /\ MOCK_DOCTORS = L.before.mock
            /\ ~takesRemote =>
                    /\ L.fallbacks = 1
                    /\ L.rejected = LastFallback.threw
                    /\ L.ret = LastFallback.ret
                    /\ localStorage = LastFallback.ls /\ MOCK_DOCTORS = LastFallback.mock
            /\ L.attempts = (IF ConfigInvalid THEN 0 ELSE 1)
            /\ L.attempts <= 1 /\ L.fallbacks <= 1

\* A list request answered with null data and no error: the fallback's list
\* is returned.
C1_Witness ==
    /\ HasReturned
    /\ L.call.kind = "list" /\ L.net = "nodata" /\ L.call.key = "users"
    /\ L.path = "fallback" /\ L.attempts = 1 /\ L.fallbacks = 1
    /\ Len(L.ret) > 0

---------------------------------------------------------------------------
(* C2.  When the URL or the key is missing, or the URL does not start with *)
(* 'http', every api call runs its fallback closure and no remote          *)
(* operation is ever started, whatever calls were made before.             *)
C2_DisabledNeverRemote ==
    ConfigInvalid =>
        /\ remoteStarted = 0
        /\ db = HostedTables /\ serial = 3
        /\ HasReturned => L.path = "fallback" /\ L.attempts = 0 /\ L.fallbacks = 1

\* The second call of a session with a URL that is not http: a write that
\* went to localStorage.
C2_Witness ==
    /\ HasReturned /\ calls = 2
    /\ env.VITE_SUPABASE_URL # <<>> /\ env.VITE_SUPABASE_ANON_KEY # <<>>
    /\ ConfigInvalid
    /\ L.call.kind = "add" /\ L.path = "fallback"
    /\ localStorage # L.before.ls

---------------------------------------------------------------------------
(* C3.  A write of the api lands in a store when the collection that store *)
(* holds under the call's key is different after the call.                 *)
LandsRemote == db[L.call.key] # L.before.db[L.call.key]
LandsFallback == CollectionNow(L.call.key) # CollectionBefore(L.call.key)
IsWrite == HasReturned /\ L.call.kind \in WriteKinds
\* The store the wrapper chose holds a record with the call's id.
ChosenStoreHoldsId ==
    LET recs == IF L.path = "remote" THEN L.before.db[L.call.key]
                ELSE CollectionBefore(L.call.key)
    IN  \E i \in 1..Len(recs) : Prop(recs[i], "id") = Num(L.call.id)

---------------------------------------------------------------------------
\* The last step of the store on its own.
StoreWrote == last # <<>> /\ "fn" \in DOMAIN last[1] /\ last[1].fn = "setMockData"
StoreHasRead == last # <<>> /\ "fn" \in DOMAIN last[1] /\ last[1].fn = "getMockData"

(* C4.  For every fallback key and every array JSON represents as it is,   *)
(* once setMockData has stored the array, getMockData under the same key   *)
(* returns that array whatever default the caller supplies, also when the  *)
(* array is empty; a read of a key that is absent or holds text that does  *)
(* not parse returns the caller's default, and a read of a key that holds  *)
(* a serialized array returns that array.                                  *)
C4_StoreRoundTrip ==
    /\ (StoreWrote /\ ~L.setItemThrows /\ JSONSerializable(L.data)) =>
            \A dflt \in StoreDefaults : getMockData(localStorage, L.key, dflt) = L.data
    /\ StoreHasRead =>
            /\ (L.item = NullItem \/ ~L.item.parses) => L.result = L.defaultData
            /\ (L.item # NullItem /\ L.item.parses) => L.result = L.item.value

\* The empty array was stored under 'doctors': a read with the built-in
\* doctors as default gives the empty array.
C4_Witness ==
    /\ StoreWrote /\ ~L.setItemThrows
    /\ L.key = "doctors" /\ L.data = <<>>
    /\ getMockData(localStorage, "doctors", InitialDoctors) = <<>>
    /\ InitialDoctors # <<>>

---------------------------------------------------------------------------
\* loginPatient has returned; the registrations of the store that answered
\* it, and those among them with the NIK asked for.
IsLogin == HasReturned /\ L.call.kind = "login"
AnsweringRegistrations ==
    IF L.path = "remote" THEN L.before.db["registrations"]
    ELSE getMockData(L.before.ls, "registrations", <<>>)
MatchingRegistrations ==
    SelectSeq(AnsweringRegistrations, LAMBDA r : Prop(r, "nik") = L.call.arg)
ThreeLoginCases ==
    IF Len(MatchingRegistrations) > 0
    THEN ~L.rejected /\ L.ret = [found |-> TRUE, data |-> MatchingRegistrations]
    ELSE IF Len(L.call.arg.c) >= 10
         THEN ~L.rejected /\ L.ret = [found |-> TRUE, data |-> <<>>]
         ELSE L.rejected /\ L.ret = Str("NIK tidak ditemukan")

(* C5 as claimed: whichever store answers, a NIK with registrations gives  *)
(* found: true with exactly those, an unknown NIK of 10 or more characters *)
(* gives found: true with no records, and an unknown shorter NIK raises    *)
(* the 'not found' error.                                                  *)
C5_ThreeCasesEitherStore == IsLogin => ThreeLoginCases

(* C5 as amended: the three cases hold when the fallback answers.  When    *)
(* the remote store answers, the call never raises: it returns found: true *)
(* with the rows the store returned for the NIK, none for an unknown NIK   *)
(* of any length (and none when the store returned no data).               *)
C5_ThreeCasesFallbackOnly ==
    IsLogin =>
        /\ L.path = "fallback" => ThreeLoginCases
        /\ L.path = "remote" =>
                /\ ~L.rejected
                /\ L.ret = [found |-> TRUE,
                            data |-> IF L.net = "ok" THEN MatchingRegistrations ELSE <<>>]

\* The remote request failed and the fallback raised 'not found' for a
\* short NIK no stored registration has.
C5_Witness ==
    /\ IsLogin /\ L.attempts = 1 /\ L.path = "fallback"
    /\ L.call.arg = ShortNik /\ L.rejected
    /\ L.ret = Str("NIK tidak ditemukan")

---------------------------------------------------------------------------
\* A delete that ran in the fallback store for an id no stored record has.
DeletedMissing ==
    /\ HasReturned /\ L.call.kind = "delete" /\ L.path = "fallback"
    /\ \A i \in 1..Len(CollectionBefore(L.call.key)) :
            Prop(CollectionBefore(L.call.key)[i], "id") # Num(L.call.id)

(* C6 as claimed: deleting an id no stored record has returns success and  *)
(* leaves the fallback storage as it was, the item under the key included  *)
(* and whether there is one.                                               *)
C6_StorageUntouched ==
    DeletedMissing => /\ ~L.rejected /\ L.ret = Bool(TRUE)
                      /\ localStorage = L.before.ls

(* C6 as amended: deleting an id no stored record has returns success and  *)
(* leaves unchanged the collection a read of the key gives, every other    *)
(* key and the built-in default doctors; the item under the key is written *)
(* again as the serialized collection, so a key that was absent, empty or  *)
(* unparsable then holds the serialized default, unless localStorage       *)
(* rejects the write and the item stays as it was.                         *)
C6_CollectionUntouched ==
    DeletedMissing =>
        /\ ~L.rejected /\ L.ret = Bool(TRUE)
        /\ CollectionNow(L.call.key) = CollectionBefore(L.call.key)
        /\ MOCK_DOCTORS = L.before.mock
        /\ \A k \in Keys \ {L.call.key} : localStorage[k] = L.before.ls[k]
        /\ localStorage[L.call.key] =
                IF L.setItemThrows THEN L.before.ls[L.call.key]
                ELSE JSONstringify(CollectionBefore(L.call.key))

\* deleteUser of a missing id on a storage without a 'users' key: the key
\* now holds the serialized empty array.
C6_Witness ==
    /\ DeletedMissing /\ L.call.key = "users" /\ ~L.setItemThrows
    /\ L.before.ls["users"] = NullItem
    /\ localStorage["users"] = JSONstringify(<<>>)

---------------------------------------------------------------------------
\* An update has returned; the collection of the store it ran in, before
\* and after, as that store serializes it.
IsUpdate == HasReturned /\ L.call.kind \in {"updateGuarded", "updateAlways"}
UpdatedBefore ==
    IF L.path = "remote" THEN L.before.db[L.call.key] ELSE CollectionBefore(L.call.key)
UpdatedAfter ==
    IF L.path = "remote" THEN db[L.call.key] ELSE CollectionNow(L.call.key)
\* The record the fallback updates: the first one with the id.
FirstWithId ==
    LET hit == {i \in 1..Len(UpdatedBefore) : Prop(UpdatedBefore[i], "id") = Num(L.call.id)}
    IN  {i \in hit : \A j \in hit : i <= j}
OptionalArguments ==
    {"payment_status", "cost", "payment_detail", "payment_proof", "class_type",
     "facility_notes"}
NotSupplied(f) == f \notin DOMAIN L.call.given \/ L.call.given[f] = Undefined

(* C7.  An update changes only the fields given in the request: the number *)
(* and order of the records stay, every record but the target stays as it  *)
(* was, and the target keeps every field that is not in the payload; for   *)
(* updateRegistration every optional argument that is not supplied leaves  *)
(* the stored value of its field as it was in every record.                *)
C7_UpdateFrame ==
    IsUpdate =>
        /\ Len(UpdatedAfter) = Len(UpdatedBefore)
        /\ \A i \in 1..Len(UpdatedBefore) :
            /\ Prop(UpdatedBefore[i], "id") # Num(L.call.id) => UpdatedAfter[i] = UpdatedBefore[i]
            /\ (L.path = "fallback" /\ i \notin FirstWithId) => UpdatedAfter[i] = UpdatedBefore[i]
            /\ (DOMAIN UpdatedAfter[i]) \ (DOMAIN L.call.arg)
                    = (DOMAIN UpdatedBefore[i]) \ (DOMAIN L.call.arg)
            /\ \A f \in (DOMAIN UpdatedBefore[i]) \ (DOMAIN L.call.arg) :
                    UpdatedAfter[i][f] = UpdatedBefore[i][f]
            /\ L.call.fn = "updateRegistration" =>
                    \A f \in OptionalArguments :
                        NotSupplied(f) => Prop(UpdatedAfter[i], f) = Prop(UpdatedBefore[i], f)
        /\ \A k \in Keys \ {L.call.key} :
                db[k] = L.before.db[k] /\ localStorage[k] = L.before.ls[k]

\* updateRegistration with only a status, in the fallback store: the status
\* of the stored registration changed, its class_type and payment fields
\* are as they were.
C7_Witness ==
    /\ IsUpdate /\ L.call.fn = "updateRegistration" /\ L.path = "fallback"
    /\ DOMAIN L.call.given = {"status"}
    /\ FirstWithId = {1}
    /\ UpdatedAfter[1].status = Str("Selesai") /\ UpdatedBefore[1].status = Str("Pending")
    /\ UpdatedAfter[1].class_type = Str("VIP")
    /\ UpdatedAfter[1].payment_status = Str("Unpaid")

---------------------------------------------------------------------------
\* registerPatient has returned; the record it answered with, and the
\* registrations of the store it ran in.
IsRegister == HasReturned /\ L.call.kind = "register"
Registered == L.ret.data
RegistrationsBefore ==
    IF L.path = "remote" THEN L.before.db["registrations"]
    ELSE CollectionBefore("registrations")
RegistrationsAfter ==
    IF L.path = "remote" THEN db["registrations"] ELSE CollectionNow("registrations")
\* The derived fields of a registration r made from the caller's data.
DerivedFields(r, data) ==
    LET bpjs == "payment" \in DOMAIN data /\ data.payment = Str("bpjs") IN
    /\ \E n \in 1000..9999 : r.bookingCode = Template("REG-", n)
    /\ r.booking_code = r.bookingCode
    /\ r.status = Str("Pending")
    /\ r.cost = Num(0)
    /\ r.payment_status = (IF bpjs THEN Str("Paid") ELSE Str("Unpaid"))
    /\ r.payment_detail =
            (IF bpjs THEN Str("BPJS Kesehatan")
             ELSE IF "payment_detail" \in DOMAIN data /\ data.payment_detail # Str("")
                  THEN data.payment_detail ELSE Str("Tunai"))
    /\ r.nik = data.nik

(* C8.  Every registerPatient call answers with a new registration whose   *)
(* booking code is 'REG-' and a number in 1000..9999, bookingCode equal to *)
(* booking_code, status 'Pending', cost 0, payment_status 'Paid' exactly   *)
(* for payment 'bpjs' and 'Unpaid' otherwise, payment_detail 'BPJS         *)
(* Kesehatan' for 'bpjs' and else the supplied payment_detail or 'Tunai',  *)
(* whatever the caller supplied for these fields.  The store the call ran  *)
(* in keeps every registration it had and gets this one appended, never    *)
(* merged with one of the same NIK (the fallback store when it accepts     *)
(* the write); the number in the code is decided by the random draw alone, *)
(* so two registrations of one NIK differ in code unless the draws give    *)
(* the same number.                                                        *)
C8_RegistrationDerived ==
    IsRegister =>
        /\ ~L.rejected /\ L.ret.message = Str("success")
        /\ DerivedFields(Registered, L.call.given.data)
        /\ Registered.bookingCode =
                Template("REG-", 1000 + ((L.call.given.k * 9000) \div RandDen))
        /\ ~L.setItemThrows =>
            /\ Len(RegistrationsAfter) = Len(RegistrationsBefore) + 1
            /\ \A i \in 1..Len(RegistrationsBefore) :
                    RegistrationsAfter[i] = RegistrationsBefore[i]
            /\ DerivedFields(RegistrationsAfter[Len(RegistrationsAfter)], L.call.given.data)
            /\ RegistrationsAfter[Len(RegistrationsAfter)].bookingCode = Registered.bookingCode

\* A second registration of a NIK in the session: the store holds the first
\* one, made by an earlier call, and the new one, with different codes.
C8_Witness ==
    /\ IsRegister /\ calls = 2 /\ ~L.setItemThrows
    /\ \E i \in 1..Len(RegistrationsBefore) :
        /\ "bookingCode" \in DOMAIN RegistrationsBefore[i]
        /\ RegistrationsBefore[i].nik = Registered.nik
        /\ RegistrationsBefore[i].bookingCode # Registered.bookingCode
        /\ RegistrationsAfter[i] = RegistrationsBefore[i]
    /\ RegistrationsAfter[Len(RegistrationsAfter)].bookingCode = Registered.bookingCode

---------------------------------------------------------------------------
\* A returned call whose write the fallback store accepted.
Accepted(r) == r.path = "fallback" /\ ~r.setItemThrows /\ ~r.rejected
\* The record an accepted add stored.
AddedRecord(r) == toJSONObject(Spread([id |-> Num(r.at)], r.call.arg))
\* The collection under the key of r holds what r wrote: one record for each
\* accepted add of that record, and the payload of an update in the first
\* record with the id, if the collection had one when the update ran.
Reflected(r) ==
    LET coll == CollectionNow(r.call.key)
        same == {j \in 1..Len(returned) :
                    /\ Accepted(returned[j]) /\ returned[j].call.kind = "add"
                    /\ returned[j].call.key = r.call.key
                    /\ AddedRecord(returned[j]) = AddedRecord(r)}
        held == {i \in 1..Len(coll) : Prop(coll[i], "id") = Num(r.call.id)}
        then == Collection(r.found.ls, r.found.mock, r.call.key)
        payload == toJSONObject(r.call.arg)
    IN  IF r.call.kind = "add"
        THEN Cardinality({i \in 1..Len(coll) : coll[i] = AddedRecord(r)}) >= Cardinality(same)
        ELSE (\E i \in 1..Len(then) : Prop(then[i], "id") = Num(r.call.id)) =>
                \E i \in held :
                    /\ \A j \in held : i <= j
                    /\ \A f \in DOMAIN payload : Prop(coll[i], f) = payload[f]
\* Calls returned success for writes on one key of the fallback store, and
\* the stored collection does not hold what one of them wrote.
LostUpdate ==
    \E i, j \in 1..Len(returned) :
        /\ i # j
        /\ Accepted(returned[i]) /\ Accepted(returned[j])
        /\ returned[i].call.key = returned[j].call.key
        /\ ~Reflected(returned[i])

---------------------------------------------------------------------------
\* What a fallback read of every key gives, on given stores.
FallbackReadsOf(ls, mock) == [k \in Keys |-> getMockData(ls, k, defaultData(k, mock))]

(* C10 as claimed: when the localStorage write of a fallback operation     *)
(* fails, the operation still returns success and the write is dropped:    *)
(* a later fallback read of every key returns what it returned before the  *)
(* operation, the built-in doctors after a failed addDoctor or             *)
(* updateDoctor on a storage without a 'doctors' key.                      *)
C10_FailedWriteDropped ==
    (HasReturned /\ L.setItemThrows) =>
        /\ ~L.rejected
        /\ localStorage = L.before.ls
        /\ FallbackReadsOf(localStorage, MOCK_DOCTORS)
                = FallbackReadsOf(L.before.ls, L.before.mock)

=============================================================================
